---- MODULE Spec2Model ----
(***************************************************************************)
(* Session registry (ws-service/connection_manager.py) and the media-stream *)
(* connection handler (ws-service/routes/websocket.py, receive_media).      *)
(*                                                                          *)
(* Two specifications are defined over the same variables:                  *)
(*   Spec    - NumHandlers connection handlers of /ws/media run as asyncio  *)
(*             tasks while begin_shutdown() and close_all() may be called;  *)
(*             a step is the code a task runs between two awaits.           *)
(*   RegSpec - the ConnectionManager API called in any order with any       *)
(*             arguments (the registry's contract on its own).              *)
(***************************************************************************)
EXTENDS FiniteSets, Integers, Sequences, TLC

\* ---------------------------------------------------------------- bounds
NumHandlers == 2    \* connection handlers (one transport each)
MaxUuid == 2        \* connect() calls made by the API harness of RegSpec
MaxFrames == 2      \* frames one handler receives
MaxStr == 2         \* characters of a chunk or timestamp sent as a string

Handlers == 1..NumHandlers
Ids == 1..(MaxUuid + 1)      \* ids the harness passes, one of them never issued
NoId == 0

VARIABLES
    sessions,          \* ConnectionManager._sessions: id -> Session
    is_shutting_down,  \* ConnectionManager._is_shutting_down
    last_uuid,         \* state of the uuid7 generator
    ws_closed,         \* per transport: the server side has sent its close
    close_calls,       \* per transport: how often websocket.close() was invoked
    ca,                \* the close_all() coroutine
    lastCall,          \* RegSpec: the last API call and what it returned
    pc,                \* per handler: where receive_media stands
    session_id,        \* per handler: local session_id
    message_count,     \* per handler: local message_count
    has_seen_media,    \* per handler: local has_seen_media
    frames,            \* per handler: what receive_json delivered so far
    reported,          \* per handler: message_count logged by "Connection closed"
    media_logged,      \* per handler: number of "Media message" log lines
    disc_calls,        \* per handler: disconnect() calls made by its finally block
    exit_by,           \* per handler: the except clause that ended it
    environment,       \* settings.environment
    signature,         \* per connection: its X-Twilio-Signature header
    gate,              \* per connection: what validate_twilio_websocket decided
    app_shut_down,     \* main.shutdown_event has run
    raw,               \* a MediaDetails input: its chunk and timestamp as sent
    validated          \* what MediaDetails validation made of raw

regvars == <<sessions, is_shutting_down, last_uuid>>
wsvars == <<ws_closed, close_calls>>
hvars == <<pc, session_id, message_count, has_seen_media, frames, reported,
           media_logged, disc_calls, exit_by>>
appvars == <<environment, signature, gate, app_shut_down, raw, validated>>
vars == <<sessions, is_shutting_down, last_uuid, ws_closed, close_calls, ca,
          lastCall, pc, session_id, message_count, has_seen_media, frames,
          reported, media_logged, disc_calls, exit_by, environment, signature,
          gate, app_shut_down, raw, validated>>

\* ------------------------------------------------------------ dictionaries
EmptyDict == [k \in {} |-> ""]

\* dict.update(other)
dict_update(d, other) ==
    [k \in (DOMAIN d) \cup (DOMAIN other) |->
        IF k \in DOMAIN other THEN other[k] ELSE d[k]]

\* del d[key]
dict_del_kept(d, key) == d
dict_del(d, key) == [k \in (DOMAIN d) \ {key} |-> d[k]]

RECURSIVE sorted_seq(_)
sorted_seq(S) ==
    IF S = {} THEN <<>>
    ELSE LET m == CHOOSE x \in S : \A y \in S : x <= y
         IN <<m>> \o sorted_seq(S \ {m})

\* list(self._sessions.keys()): a dict lists its keys in insertion order, and
\* connect() inserts ids in the order uuid7 issues them, which is increasing.
keys_list(d) == sorted_seq(DOMAIN d)

\* ------------------------------------------------------- ConnectionManager
\* uuid7(): the id after the last one issued; ids of one process never repeat.
uuid7_reused(last) == IF last = 0 THEN 1 ELSE last
uuid7(last) == last + 1

\* Session(session_id=..., websocket=..., metadata={})
Session(id, websocket) ==
    [session_id |-> id, websocket |-> websocket, metadata |-> EmptyDict]

\* ConnectionManager.connect: no test of _is_shutting_down is made.
connect(sess, last, websocket) ==
    LET id == uuid7(last)
    IN [sessions |-> [k \in (DOMAIN sess) \cup {id} |->
                         IF k = id THEN Session(id, websocket) ELSE sess[k]],
        last_uuid |-> id,
        ret |-> id]

\* ConnectionManager.disconnect
disconnect_unguarded(sess, id) ==
    IF id \in DOMAIN sess
    THEN [sessions |-> dict_del(sess, id), raised |-> "none"]
    ELSE [sessions |-> sess, raised |-> "KeyError"]
disconnect_clears(sess, id) == [sessions |-> EmptyDict, raised |-> "none"]
disconnect(sess, id) ==
    IF id \in DOMAIN sess
    THEN [sessions |-> dict_del(sess, id), raised |-> "none"]
    ELSE [sessions |-> sess, raised |-> "none"]

\* ConnectionManager.get_session
NoSession == [session_id |-> NoId, websocket |-> 0, metadata |-> EmptyDict]
get_session(sess, id) == IF id \in DOMAIN sess THEN sess[id] ELSE NoSession

\* ConnectionManager.update_metadata
update_metadata_setdefault(sess, id, metadata) ==
    [sessions |-> [k \in (DOMAIN sess) \cup {id} |->
                     IF k # id THEN sess[k]
                     ELSE IF id \in DOMAIN sess
                          THEN [sess[id] EXCEPT !.metadata = dict_update(@, metadata)]
                          ELSE [Session(id, 1) EXCEPT !.metadata = metadata]],
     raised |-> "none"]
update_metadata(sess, id, metadata) ==
    IF id \in DOMAIN sess
    THEN [sessions |-> [sess EXCEPT ![id].metadata = dict_update(@, metadata)],
          raised |-> "none"]
    ELSE [sessions |-> sess, raised |-> "none"]

\* ConnectionManager.active_count
active_count(sess) == Cardinality(DOMAIN sess)

\* ConnectionManager.begin_shutdown
begin_shutdown_toggle(flag) == ~flag
begin_shutdown(flag) == IF ~flag THEN TRUE ELSE flag


\* ------------------------------------------------- ConnectionManager.close_all
\* The try statement around the awaited websocket.close(): closed_count += 1
\* when the close returned (ok), a logged warning when it raised; the
\* exception goes no further.
try_close_no_except(ok, count) ==
    [closed_count |-> IF ok THEN count + 1 ELSE count, warned |-> 0,
     raised |-> IF ok THEN "none" ELSE "Exception"]
try_close(ok, count) ==
    [closed_count |-> IF ok THEN count + 1 ELSE count,
     warned |-> IF ok THEN 0 ELSE 1,
     raised |-> "none"]

\* close_all() from the head of its for loop up to its next suspension (the
\* await of a websocket.close() that has to talk to the peer), its return, or
\* an exception leaving it. A close() on a transport whose close was already
\* sent raises at once; the finally clause disconnects the session.
close_all_end(how, sess, closed, calls, count, warnings) ==
    [pc |-> how, session_ids |-> <<>>, cur |-> NoId, closed_count |-> count,
     warnings |-> warnings, sessions |-> sess, ws_closed |-> closed,
     close_calls |-> calls]

RECURSIVE close_all_run_no_skip(_, _, _, _, _, _)
close_all_run_no_skip(ids, sess, closed, calls, count, warnings) ==
    IF ids = <<>>
    THEN close_all_end("returned", sess, closed, calls, count, warnings)
    ELSE LET id == Head(ids)
             session == get_session(sess, id)
             w == session.websocket
             t == try_close(FALSE, count)
         IN IF session = NoSession
            THEN close_all_end("raised", sess, closed, calls, count, warnings)
            ELSE IF closed[w]
            THEN close_all_run_no_skip(Tail(ids), disconnect(sess, id).sessions,
                     closed, [calls EXCEPT ![w] = @ + 1], t.closed_count,
                     warnings + t.warned)
            ELSE [pc |-> "awaiting_close", session_ids |-> Tail(ids), cur |-> id,
                  closed_count |-> count, warnings |-> warnings, sessions |-> sess,
                  ws_closed |-> [closed EXCEPT ![w] = TRUE],
                  close_calls |-> [calls EXCEPT ![w] = @ + 1]]

RECURSIVE close_all_run(_, _, _, _, _, _)
close_all_run(ids, sess, closed, calls, count, warnings) ==
    IF ids = <<>>
    THEN close_all_end("returned", sess, closed, calls, count, warnings)
    ELSE LET id == Head(ids)
             session == get_session(sess, id)
             w == session.websocket
             t == try_close(FALSE, count)
         IN IF session = NoSession
            THEN close_all_run(Tail(ids), sess, closed, calls, count, warnings)
            ELSE IF closed[w]
            THEN IF t.raised # "none"
                 THEN close_all_end("raised", disconnect(sess, id).sessions, closed,
                                    [calls EXCEPT ![w] = @ + 1], count, warnings)
                 ELSE close_all_run(Tail(ids), disconnect(sess, id).sessions,
                          closed, [calls EXCEPT ![w] = @ + 1], t.closed_count,
                          warnings + t.warned)
            ELSE [pc |-> "awaiting_close", session_ids |-> Tail(ids), cur |-> id,
                  closed_count |-> count, warnings |-> warnings, sessions |-> sess,
                  ws_closed |-> [closed EXCEPT ![w] = TRUE],
                  close_calls |-> [calls EXCEPT ![w] = @ + 1]]

\* The sessions' transports, as a set.
transports(sess) == {sess[k].websocket : k \in DOMAIN sess}

CloseAllInstall(r) ==
    /\ sessions' = r.sessions
    /\ ws_closed' = r.ws_closed
    /\ close_calls' = r.close_calls
    /\ ca' = [ca EXCEPT !.pc = r.pc, !.session_ids = r.session_ids, !.cur = r.cur,
                        !.closed_count = r.closed_count, !.warnings = r.warnings]

\* close_all() is called: closed_count = 0, the snapshot of the keys, and the
\* loop up to the first await.
CloseAllCall ==
    /\ ca.pc \in {"idle", "returned", "raised"}
    /\ LET r == close_all_run(keys_list(sessions), sessions, ws_closed,
                              close_calls, 0, 0)
       IN /\ sessions' = r.sessions
          /\ ws_closed' = r.ws_closed
          /\ close_calls' = r.close_calls
          /\ ca' = [pc |-> r.pc, session_ids |-> r.session_ids, cur |-> r.cur,
                    closed_count |-> r.closed_count, warnings |-> r.warnings,
                    snapshot |-> keys_list(sessions),
                    snapshot_ws |-> transports(sessions),
                    after_flag |-> is_shutting_down]
    /\ UNCHANGED <<is_shutting_down, last_uuid, lastCall, hvars, appvars>>

\* The awaited websocket.close() returns (ok) or raises (~ok); the finally
\* clause disconnects the session and the loop goes on to the next await.
CloseAllResume(ok) ==
    /\ ca.pc = "awaiting_close"
    /\ LET t == try_close(ok, ca.closed_count)
           sess == disconnect(sessions, ca.cur).sessions
       IN IF t.raised # "none"
          THEN CloseAllInstall(close_all_end("raised", sess, ws_closed, close_calls,
                                             ca.closed_count, ca.warnings))
          ELSE CloseAllInstall(close_all_run(ca.session_ids, sess, ws_closed,
                                   close_calls, t.closed_count,
                                   ca.warnings + t.warned))
    /\ UNCHANGED <<is_shutting_down, last_uuid, lastCall, hvars, appvars>>

\* begin_shutdown() is called.
BeginShutdownCall ==
    /\ is_shutting_down' = begin_shutdown(is_shutting_down)
    /\ UNCHANGED <<sessions, last_uuid, wsvars, ca, lastCall, hvars, appvars>>


\* --------------------------------------------------------- Message schema
\* What receive_json() hands to the loop: a decoded JSON object, reduced to its
\* event tag and to whether the fields its variant requires are all valid.
Events == {"connected", "start", "media", "stop"}
JsonFrames ==
    [event : Events \cup {"unknown_thing", "absent"}, fields_ok : {TRUE}] \cup
    [event : {"media"}, fields_ok : {FALSE}]

\* The Message union: a frame is a Protocol Message when its event tag names
\* one of the four variants and that variant's fields validate.
schema_valid(media) == media.event \in Events /\ media.fields_ok

\* Message.model_validate(media), line 152 of receive_media. Message is the
\* typing.Union of the four pydantic models, and a Union object has no
\* attribute model_validate: the expression raises AttributeError for every
\* argument, before any validation takes place. AttributeError is no
\* pydantic ValidationError, so the inner except clause does not catch it.
model_validate_checked(media) ==
    IF schema_valid(media) THEN "ok" ELSE "ValidationError"
model_validate(media) == "AttributeError"

\* What the awaited receive_json() can end with besides a decoded object:
\* WebSocketDisconnect (the peer or the server closed), JSONDecodeError (a text
\* frame that is no JSON) and any other transport fault (RuntimeError).
RecvRaises == {"WebSocketDisconnect", "JSONDecodeError", "RuntimeError"}
RecvOutcomes ==
    {[kind |-> "json", media |-> m, exc |-> "none"] : m \in JsonFrames} \cup
    {[kind |-> "raise", media |-> [event |-> "absent", fields_ok |-> FALSE],
      exc |-> e] : e \in RecvRaises}

\* twilio_metadata of a start message: the streamSid, callSid and accountSid of
\* its "start" object under the keys stream_sid, call_sid and account_sid.
twilio_metadata ==
    [stream_sid |-> "MZ1", call_sid |-> "CA1", account_sid |-> "AC1"]

\* One pass of the while loop of receive_media on a decoded object: validation,
\* dispatch on message.event, the counter. exit is "raise" (an exception leaves
\* the loop), "continue" (the next receive_json) or "break" (a stop message).
loop_body(media, sess, id, count, seen, logged) ==
    LET v == model_validate(media)
        same == [sessions |-> sess, message_count |-> count,
                 has_seen_media |-> seen, media_logged |-> logged]
    IN IF v = "AttributeError"
       THEN same @@ [exit |-> "raise", exc |-> "AttributeError"]
       ELSE IF v = "ValidationError"
       THEN same @@ [exit |-> "continue", exc |-> "none"]
       ELSE IF media.event = "connected"
       THEN [same EXCEPT !.message_count = @ + 1]
            @@ [exit |-> "continue", exc |-> "none"]
       ELSE IF media.event = "start"
       THEN [same EXCEPT !.message_count = @ + 1,
                         !.sessions = update_metadata(sess, id,
                                                      twilio_metadata).sessions]
            @@ [exit |-> "continue", exc |-> "none"]
       ELSE IF media.event = "media"
       THEN [same EXCEPT !.message_count = @ + 1,
                         !.has_seen_media = TRUE,
                         !.media_logged = IF seen THEN @ ELSE @ + 1]
            @@ [exit |-> "continue", exc |-> "none"]
       ELSE same @@ [exit |-> "break", exc |-> "none"]

\* The except clause an exception raised inside the try block selects.
except_clause_narrow(exc) ==
    IF exc = "WebSocketDisconnect" THEN "WebSocketDisconnect" ELSE "uncaught"
except_clause(exc) ==
    IF exc = "WebSocketDisconnect" THEN "WebSocketDisconnect" ELSE "Exception"

\* The finally block of receive_media: connection_manager.disconnect(session_id).
finally_twice(sess, id, calls) ==
    [sessions |-> disconnect(disconnect(sess, id).sessions, id).sessions,
     disc_calls |-> calls + 2]
finally_block(sess, id, calls) ==
    [sessions |-> disconnect(sess, id).sessions, disc_calls |-> calls + 1]

\* ------------------------------------------------------ receive_media
\* await websocket.accept(): the handshake completes, or it raises and the
\* handler ends before it has a session.
Accept(h, ok) ==
    /\ pc[h] = "idle"
    /\ pc' = [pc EXCEPT ![h] = IF ok THEN "accepted" ELSE "aborted"]
    /\ UNCHANGED <<regvars, wsvars, ca, lastCall, session_id, message_count,
                   has_seen_media, frames, reported, media_logged, disc_calls,
                   exit_by, appvars>>

\* session_id = connection_manager.connect(...), the log line, the two locals
\* of the try block, and the first receive_json() is awaited.
Connect(h) ==
    /\ pc[h] = "accepted"
    /\ LET r == connect(sessions, last_uuid, h)
       IN /\ sessions' = r.sessions
          /\ last_uuid' = r.last_uuid
          /\ session_id' = [session_id EXCEPT ![h] = r.ret]
    /\ message_count' = [message_count EXCEPT ![h] = 0]
    /\ has_seen_media' = [has_seen_media EXCEPT ![h] = FALSE]
    /\ pc' = [pc EXCEPT ![h] = "recv"]
    /\ UNCHANGED <<is_shutting_down, wsvars, ca, lastCall, frames, reported,
                   media_logged, disc_calls, exit_by, appvars>>

\* The awaited receive_json() ends with outcome o, and the handler runs to its
\* next await: the next receive_json() (pc "recv"), the websocket.close() after
\* a stop message (pc "closing"), or through an except clause and the finally
\* block to its end (pc "done"). After a stop message the message count is
\* logged and websocket.close() is invoked; on a transport whose close was
\* already sent that call raises at once.
Receive(h, o) ==
    /\ pc[h] = "recv"
    /\ Len(frames[h]) < MaxFrames
    /\ frames' = [frames EXCEPT ![h] = Append(@, o)]
    /\ LET b == IF o.kind = "raise"
                THEN [sessions |-> sessions, message_count |-> message_count[h],
                      has_seen_media |-> has_seen_media[h],
                      media_logged |-> media_logged[h],
                      exit |-> "raise", exc |-> o.exc]
                ELSE loop_body(o.media, sessions, session_id[h], message_count[h],
                               has_seen_media[h], media_logged[h])
           close_raises == b.exit = "break" /\ ws_closed[h]
           exc == IF close_raises THEN "RuntimeError" ELSE b.exc
           f == finally_block(b.sessions, session_id[h], disc_calls[h])
       IN /\ message_count' = [message_count EXCEPT ![h] = b.message_count]
          /\ has_seen_media' = [has_seen_media EXCEPT ![h] = b.has_seen_media]
          /\ media_logged' = [media_logged EXCEPT ![h] = b.media_logged]
          /\ reported' = [reported EXCEPT ![h] =
                             IF b.exit = "break" THEN b.message_count ELSE @]
          /\ close_calls' = [close_calls EXCEPT ![h] =
                                IF b.exit = "break" THEN @ + 1 ELSE @]
          /\ ws_closed' = [ws_closed EXCEPT ![h] =
                              IF b.exit = "break" THEN TRUE ELSE @]
          /\ IF b.exit = "raise" \/ close_raises
             THEN /\ sessions' = f.sessions
                  /\ disc_calls' = [disc_calls EXCEPT ![h] = f.disc_calls]
                  /\ exit_by' = [exit_by EXCEPT ![h] = except_clause(exc)]
                  /\ pc' = [pc EXCEPT ![h] = "done"]
             ELSE /\ sessions' = b.sessions
                  /\ pc' = [pc EXCEPT ![h] = IF b.exit = "break" THEN "closing"
                                             ELSE "recv"]
                  /\ UNCHANGED <<disc_calls, exit_by>>
    /\ UNCHANGED <<is_shutting_down, last_uuid, ca, lastCall, session_id, appvars>>

\* The websocket.close() awaited after a stop message returns (ok) or raises
\* (~ok); either way the finally block runs and the handler ends. Since
\* model_validate raises for every message, no handler ever gets to that
\* await: this step is enabled in no reachable state and is no disjunct of Next.
CloseResume(h, ok) ==
    /\ pc[h] = "closing"
    /\ LET f == finally_block(sessions, session_id[h], disc_calls[h])
       IN /\ sessions' = f.sessions
          /\ disc_calls' = [disc_calls EXCEPT ![h] = f.disc_calls]
    /\ exit_by' = [exit_by EXCEPT ![h] = IF ok THEN "none" ELSE "Exception"]
    /\ pc' = [pc EXCEPT ![h] = "done"]
    /\ UNCHANGED <<is_shutting_down, last_uuid, wsvars, ca, lastCall, session_id,
                   message_count, has_seen_media, frames, reported, media_logged,
                   appvars>>

\* ------------------------------------------------- websocket_endpoint
\* The /ws/test handler after its accept: connection_manager.connect(...), the
\* log line, and the first receive_text() is awaited.
EchoConnect(h) ==
    /\ pc[h] = "accepted"
    /\ LET r == connect(sessions, last_uuid, h)
       IN /\ sessions' = r.sessions
          /\ last_uuid' = r.last_uuid
          /\ session_id' = [session_id EXCEPT ![h] = r.ret]
    /\ pc' = [pc EXCEPT ![h] = "echo_recv"]
    /\ UNCHANGED <<is_shutting_down, wsvars, ca, lastCall, message_count,
                   has_seen_media, frames, reported, media_logged, disc_calls,
                   exit_by, appvars>>

\* What an awaited receive_text() or send_text() ends with: it returns, or it
\* raises WebSocketDisconnect or another transport fault.
EchoOutcomes == {"none", "WebSocketDisconnect", "RuntimeError"}

\* An await of the /ws/test loop ends with outcome e: the handler goes on to
\* its next await (next), or through an except clause and the finally block,
\* connection_manager.disconnect(session_id), to its end.
echo_step(h, e, next) ==
    IF e = "none"
    THEN /\ pc' = [pc EXCEPT ![h] = next]
         /\ UNCHANGED <<sessions, disc_calls, exit_by>>
    ELSE LET f == finally_block(sessions, session_id[h], disc_calls[h])
         IN /\ sessions' = f.sessions
            /\ disc_calls' = [disc_calls EXCEPT ![h] = f.disc_calls]
            /\ exit_by' = [exit_by EXCEPT ![h] = except_clause(e)]
            /\ pc' = [pc EXCEPT ![h] = "done"]

\* The awaited receive_text() ends; on a text the reply is built and
\* send_text() is awaited.
EchoReceive(h, e) ==
    /\ pc[h] = "echo_recv"
    /\ echo_step(h, e, "echo_send")
    /\ UNCHANGED <<is_shutting_down, last_uuid, wsvars, ca, lastCall, session_id,
                   message_count, has_seen_media, frames, reported, media_logged,
                   appvars>>

\* The awaited send_text() ends; on success the next receive_text() is awaited.
EchoSend(h, e) ==
    /\ pc[h] = "echo_send"
    /\ echo_step(h, e, "echo_recv")
    /\ UNCHANGED <<is_shutting_down, last_uuid, wsvars, ca, lastCall, session_id,
                   message_count, has_seen_media, frames, reported, media_logged,
                   appvars>>

\* ------------------------------------------- the registry API, called freely
\* Transports and metadata maps the harness passes.
HarnessTransports == {1, 2}
MetaMaps ==
    {[stream_sid |-> "MZ1", call_sid |-> "CA1", account_sid |-> "AC1"],
     [stream_sid |-> "MZ2"]}

Called(op, arg, ret, raised, found) ==
    lastCall' = [op |-> op, arg |-> arg, ret |-> ret, raised |-> raised,
                 found |-> found,
                 repeat |-> lastCall.op = op /\ lastCall.arg = arg]

ApiConnect(w) ==
    /\ last_uuid < MaxUuid
    /\ LET r == connect(sessions, last_uuid, w)
       IN /\ sessions' = r.sessions
          /\ last_uuid' = r.last_uuid
          /\ Called("connect", w, r.ret, "none", r.ret \in DOMAIN sessions)
    /\ UNCHANGED <<is_shutting_down, wsvars, ca, hvars, appvars>>

ApiDisconnect(id) ==
    /\ LET r == disconnect(sessions, id)
       IN /\ sessions' = r.sessions
          /\ Called("disconnect", id, 0, r.raised, id \in DOMAIN sessions)
    /\ UNCHANGED <<is_shutting_down, last_uuid, wsvars, ca, hvars, appvars>>

ApiUpdateMetadata(id, metadata) ==
    /\ LET r == update_metadata(sessions, id, metadata)
       IN /\ sessions' = r.sessions
          /\ Called("update_metadata", id, 0, r.raised, id \in DOMAIN sessions)
    /\ UNCHANGED <<is_shutting_down, last_uuid, wsvars, ca, hvars, appvars>>

ApiBeginShutdown ==
    /\ is_shutting_down' = begin_shutdown(is_shutting_down)
    /\ Called("begin_shutdown", 0, 0, "none", is_shutting_down)
    /\ UNCHANGED <<sessions, last_uuid, wsvars, ca, hvars, appvars>>

ApiGetSession(id) ==
    /\ Called("get_session", id, get_session(sessions, id).session_id, "none",
              id \in DOMAIN sessions)
    /\ UNCHANGED <<regvars, wsvars, ca, hvars, appvars>>

ApiActiveCount ==
    /\ Called("active_count", 0, active_count(sessions), "none", FALSE)
    /\ UNCHANGED <<regvars, wsvars, ca, hvars, appvars>>

\* ------------------------------------------------- MediaDetails validation
\* A JSON value sent as chunk or timestamp: a string (its characters) or a
\* native integer.
StrValue(cs) == [type |-> "str", chars |-> cs, n |-> 0]
IntValue(n) == [type |-> "int", chars |-> <<>>, n |-> n]

DigitValue ==
    [c \in {"0", "1", "2", "3", "4", "5", "6", "7", "8", "9"} |->
        CASE c = "0" -> 0 [] c = "1" -> 1 [] c = "2" -> 2 [] c = "3" -> 3
          [] c = "4" -> 4 [] c = "5" -> 5 [] c = "6" -> 6 [] c = "7" -> 7
          [] c = "8" -> 8 [] c = "9" -> 9]

\* The value of a run of digits, most significant first, in the given base.
RECURSIVE digits_value(_, _)
digits_value(cs, base) ==
    IF cs = <<>> THEN 0
    ELSE base * digits_value(SubSeq(cs, 1, Len(cs) - 1), base)
         + DigitValue[cs[Len(cs)]]

\* int(v, base) of a string: an optional minus sign, then one digit or more;
\* anything else raises ValueError.
int_of_str(cs, base) ==
    LET neg == cs # <<>> /\ cs[1] = "-"
        body == IF neg THEN Tail(cs) ELSE cs
    IN IF body = <<>> \/ \E i \in 1..Len(body) : body[i] \notin DOMAIN DigitValue
       THEN [raised |-> "ValueError", value |-> IntValue(0)]
       ELSE [raised |-> "none",
             value |-> IntValue(IF neg THEN 0 - digits_value(body, base)
                                ELSE digits_value(body, base))]

\* MediaDetails.convert_str_to_int (mode='before'): int(v) for a string, any
\* other value as it is.
convert_str_to_int_hex(v) ==
    IF v.type = "str" THEN int_of_str(v.chars, 16)
    ELSE [raised |-> "none", value |-> v]
convert_str_to_int(v) ==
    IF v.type = "str" THEN int_of_str(v.chars, 10)
    ELSE [raised |-> "none", value |-> v]

\* A field declared int (chunk: int, timestamp: int): the before-validator,
\* then the integer the value is; a ValueError of the validator is a
\* validation error of the field.
int_field(v) ==
    LET c == convert_str_to_int(v)
        w == IF c.raised = "none" /\ c.value.type = "str"
             THEN int_of_str(c.value.chars, 10) ELSE c
    IN [ok |-> w.raised = "none", n |-> w.value.n]

\* MediaDetails validated on its chunk and timestamp.
NotValidated == [done |-> FALSE, ok |-> FALSE, chunk |-> 0, timestamp |-> 0]
MediaDetails(r) ==
    LET c == int_field(r.chunk)
        t == int_field(r.timestamp)
    IN IF c.ok /\ t.ok
       THEN [done |-> TRUE, ok |-> TRUE, chunk |-> c.n, timestamp |-> t.n]
       ELSE [done |-> TRUE, ok |-> FALSE, chunk |-> 0, timestamp |-> 0]

\* The values tried: every string of at most MaxStr of these characters, and
\* every integer such a string denotes.
InputChars == {"0", "5", "-", "x"}
Strings == UNION {[1..n -> InputChars] : n \in 0..MaxStr}
RawValues ==
    {StrValue(cs) : cs \in Strings} \cup
    {int_of_str(cs, 10).value : cs \in Strings}

\* MediaDetails.model_validate on the input at hand.
ValidateMedia ==
    /\ ~validated.done
    /\ validated' = MediaDetails(raw)
    /\ UNCHANGED <<regvars, wsvars, ca, lastCall, hvars, environment, signature,
                   gate, app_shut_down, raw>>

\* ------------------------------------------------------------ handshake gate
\* WebSocketDisconnect(code=1008), the policy-violation close code.
PolicyViolation == 1008
NotCalled == [state |-> "not_called", code |-> 0]

\* validate_twilio_websocket: env is settings.environment, sig the
\* X-Twilio-Signature header ("absent" when there is none, else named by what
\* validator.validate answers for it: "valid" or "invalid").
validate_no_presence_check(env, sig) ==
    IF env = "development" THEN [state |-> "returned", code |-> 0]
    ELSE IF sig = "invalid" THEN [state |-> "raised", code |-> PolicyViolation]
    ELSE [state |-> "returned", code |-> 0]
validate_twilio_websocket(env, sig) ==
    IF env = "development" THEN [state |-> "returned", code |-> 0]
    ELSE IF sig = "absent" THEN [state |-> "raised", code |-> PolicyViolation]
    ELSE IF sig # "valid" THEN [state |-> "raised", code |-> PolicyViolation]
    ELSE [state |-> "returned", code |-> 0]

Environments == {"development", "staging", "production"}
Signatures == {"absent", "valid", "invalid"}

\* validate_twilio_websocket is called on connection h. No route declares it
\* as a dependency: receive_media accepts and registers without it.
ValidateCall(h) ==
    /\ gate[h] = NotCalled
    /\ gate' = [gate EXCEPT ![h] = validate_twilio_websocket(environment, signature[h])]
    /\ UNCHANGED <<regvars, wsvars, ca, lastCall, hvars, environment, signature,
                   app_shut_down, raw, validated>>

\* main.shutdown_event: logs "Application shutting down" and returns.
ShutdownEvent ==
    /\ ~app_shut_down
    /\ app_shut_down' = TRUE
    /\ UNCHANGED <<regvars, wsvars, ca, lastCall, hvars, environment, signature,
                   gate, raw, validated>>

\* ------------------------------------------------------------ specifications
InitCore ==
    /\ sessions = EmptyDict
    /\ is_shutting_down = FALSE
    /\ last_uuid = 0
    /\ ws_closed = [w \in Handlers |-> FALSE]
    /\ close_calls = [w \in Handlers |-> 0]
    /\ ca = [pc |-> "idle", session_ids |-> <<>>, cur |-> NoId, closed_count |-> 0,
             warnings |-> 0, snapshot |-> <<>>, snapshot_ws |-> {},
             after_flag |-> FALSE]
    /\ lastCall = [op |-> "none", arg |-> 0, ret |-> 0, raised |-> "none",
                   found |-> FALSE, repeat |-> FALSE]
    /\ pc = [h \in Handlers |-> "idle"]
    /\ session_id = [h \in Handlers |-> NoId]
    /\ message_count = [h \in Handlers |-> 0]
    /\ has_seen_media = [h \in Handlers |-> FALSE]
    /\ frames = [h \in Handlers |-> <<>>]
    /\ reported = [h \in Handlers |-> -1]
    /\ media_logged = [h \in Handlers |-> 0]
    /\ disc_calls = [h \in Handlers |-> 0]
    /\ exit_by = [h \in Handlers |-> "none"]
    /\ gate = [h \in Handlers |-> NotCalled]
    /\ app_shut_down = FALSE
    /\ validated = NotValidated

\* The service under its default settings; no MediaDetails is being validated.
Init ==
    /\ InitCore
    /\ environment = "development"
    /\ signature = [h \in Handlers |-> "absent"]
    /\ raw = [chunk |-> IntValue(0), timestamp |-> IntValue(0)]

\* close_all() is called, once in a run of the service.
CloseAllOnce ==
    /\ ca.pc = "idle"
    /\ CloseAllCall

Next ==
    \/ \E h \in Handlers, ok \in BOOLEAN : Accept(h, ok)
    \/ \E h \in Handlers : Connect(h)
    \/ \E h \in Handlers, o \in RecvOutcomes : Receive(h, o)
    \/ BeginShutdownCall
    \/ CloseAllOnce
    \/ \E ok \in BOOLEAN : CloseAllResume(ok)

Spec == Init /\ [][Next]_vars

\* What the transport delivers to end a stream: a Stop message, a disconnect
\* or a fault.
EndOutcomes ==
    {o \in RecvOutcomes :
        \/ o.kind = "raise"
        \/ o.kind = "json" /\ schema_valid(o.media) /\ o.media.event = "stop"}

\* The service on a transport that, for each handler awaiting receive_json(),
\* eventually delivers one of EndOutcomes.
LiveNext ==
    \/ \E h \in Handlers, ok \in BOOLEAN : Accept(h, ok)
    \/ \E h \in Handlers : Connect(h)
    \/ \E h \in Handlers, o \in RecvOutcomes : Receive(h, o)
    \/ CloseAllOnce
    \/ \E ok \in BOOLEAN : CloseAllResume(ok)

LiveSpec ==
    /\ Init
    /\ [][LiveNext]_vars
    /\ \A h \in Handlers :
          WF_vars(\E o \in EndOutcomes : Receive(h, o))

\* Both routes of routes/websocket.py, a connection taking either, and one
\* close_all().
OwnNext ==
    \/ \E h \in Handlers, ok \in BOOLEAN : Accept(h, ok)
    \/ \E h \in Handlers : Connect(h)
    \/ \E h \in Handlers, o \in RecvOutcomes : Receive(h, o)
    \/ \E h \in Handlers : EchoConnect(h)
    \/ \E h \in Handlers, e \in EchoOutcomes : EchoReceive(h, e)
    \/ \E h \in Handlers, e \in EchoOutcomes : EchoSend(h, e)
    \/ CloseAllOnce
    \/ \E ok \in BOOLEAN : CloseAllResume(ok)

OwnSpec == Init /\ [][OwnNext]_vars

RegNext ==
    \/ \E w \in HarnessTransports : ApiConnect(w)
    \/ \E id \in Ids : ApiDisconnect(id)
    \/ \E id \in Ids, m \in MetaMaps : ApiUpdateMetadata(id, m)
    \/ \E id \in Ids : ApiGetSession(id)
    \/ ApiActiveCount
    \/ ApiBeginShutdown
    \/ CloseAllCall
    \/ \E ok \in BOOLEAN : CloseAllResume(ok)

RegSpec == Init /\ [][RegNext]_vars


\* The application as main.py and the routes set it up, up to registration:
\* any environment, any signature header on each connection; the handshake
\* gate can be called, the shutdown hook can run.
AppInit ==
    /\ InitCore
    /\ environment \in Environments
    /\ signature \in [Handlers -> Signatures]
    /\ raw = [chunk |-> IntValue(0), timestamp |-> IntValue(0)]

AppNext ==
    \/ \E h \in Handlers, ok \in BOOLEAN : Accept(h, ok)
    \/ \E h \in Handlers : Connect(h)
    \/ \E h \in Handlers : ValidateCall(h)
    \/ ShutdownEvent

AppSpec == AppInit /\ [][AppNext]_vars

\* MediaDetails validation on every input tried.
ParseInit ==
    /\ InitCore
    /\ environment = "development"
    /\ signature = [h \in Handlers |-> "absent"]
    /\ raw \in [chunk : RawValues, timestamp : RawValues]

ParseSpec == ParseInit /\ [][ValidateMedia]_vars

\* ==================================================================== claims

\* C1: once begin_shutdown() has been called, every later connect() fails: no
\* session is stored and no id is returned, also for a handler that was past
\* its accept when begin_shutdown() ran.
C1_ConnectFailsAfterShutdown ==
    [][is_shutting_down =>
          /\ (DOMAIN sessions') \subseteq (DOMAIN sessions)
          /\ session_id' = session_id]_vars

\* C2: after begin_shutdown() and a completed close_all(), active_count() is 0
\* and close was attempted on every transport registered when close_all started.
C2_ShutdownEmptiesRegistry ==
    (ca.pc = "returned" /\ ca.after_flag) =>
        /\ active_count(sessions) = 0
        /\ \A w \in ca.snapshot_ws : close_calls[w] >= 1

\* C3: a successful connect() while not shutting down returns an id no
\* registered session has, and active_count() grows by exactly one; at any time
\* the registered sessions have pairwise different ids.
C3_IdsPairwiseDistinct ==
    \A j, k \in DOMAIN sessions :
        /\ sessions[k].session_id = k
        /\ (sessions[j].session_id = sessions[k].session_id => j = k)

\* C3 (as a whole): the invariant above, and on every connect() made while
\* not shutting down the returned id is new to the registry, the sessions
\* already registered are kept, and active_count() grows by exactly one.
C3_ConnectFreshId ==
    /\ []C3_IdsPairwiseDistinct
    /\ [][\A w \in HarnessTransports :
            (~is_shutting_down /\ ApiConnect(w)) =>
                /\ lastCall'.ret \notin DOMAIN sessions
                /\ lastCall'.ret \in DOMAIN sessions'
                /\ \A k \in DOMAIN sessions : sessions'[k] = sessions[k]
                /\ active_count(sessions') = active_count(sessions) + 1]_vars

C3_Witness ==
    /\ lastCall.op = "connect"
    /\ ~is_shutting_down
    /\ lastCall.ret \in DOMAIN sessions
    /\ active_count(sessions) >= 2

\* C4: disconnect(id) is idempotent: a second call leaves the registry as the
\* first left it; for an absent id the call raises nothing and changes nothing,
\* for a present id active_count() drops by exactly one.
C4_DisconnectIdempotent ==
    [][\A id \in Ids :
          ApiDisconnect(id) =>
              /\ lastCall'.raised = "none"
              /\ disconnect(sessions', id).raised = "none"
              /\ disconnect(sessions', id).sessions = sessions'
              /\ (id \notin DOMAIN sessions => sessions' = sessions)
              /\ (id \in DOMAIN sessions =>
                    /\ active_count(sessions') = active_count(sessions) - 1
                    /\ DOMAIN sessions' = (DOMAIN sessions) \ {id}
                    /\ \A k \in DOMAIN sessions' : sessions'[k] = sessions[k])]_vars

C4_Witness ==
    /\ lastCall.op = "disconnect"
    /\ lastCall.repeat
    /\ ~lastCall.found
    /\ lastCall.arg <= last_uuid
    /\ active_count(sessions) >= 1

\* C5: update_metadata(id, map) for an id that is not registered raises
\* nothing, creates no session and changes no session; for a registered id it
\* changes the metadata of that session and nothing else.
C5_UpdateMetadataFrame ==
    [][\A id \in Ids, m \in MetaMaps :
          ApiUpdateMetadata(id, m) =>
              /\ lastCall'.raised = "none"
              /\ DOMAIN sessions' = DOMAIN sessions
              /\ (id \notin DOMAIN sessions => sessions' = sessions)
              /\ \A k \in DOMAIN sessions :
                    /\ k # id => sessions'[k] = sessions[k]
                    /\ sessions'[k].session_id = sessions[k].session_id
                    /\ sessions'[k].websocket = sessions[k].websocket
              /\ (id \in DOMAIN sessions =>
                    sessions'[id].metadata = dict_update(sessions[id].metadata, m))]_vars

C5_Witness ==
    /\ lastCall.op = "update_metadata"
    /\ ~lastCall.found
    /\ \E k \in DOMAIN sessions : sessions[k].metadata # EmptyDict


\* What a handler received: a Protocol Message, a Stop, a Media message.
valid_message(o) == o.kind = "json" /\ schema_valid(o.media)
stop_message(o) == valid_message(o) /\ o.media.event = "stop"
media_message(o) == valid_message(o) /\ o.media.event = "media"
invalid_message(o) == o.kind = "json" /\ ~schema_valid(o.media)
media_received(h) ==
    Cardinality({i \in 1..Len(frames[h]) : media_message(frames[h][i])})

\* C6: a valid Stop message ends the receive loop (nothing is received after
\* it), and a handler's finally block invokes the registry's disconnect for
\* its session exactly once, on every exit path.
C6_StopEndsLoopDisconnectOnce ==
    \A h \in Handlers :
        /\ disc_calls[h] <= 1
        /\ (pc[h] = "done" => disc_calls[h] = 1)
        /\ (pc[h] # "done" => disc_calls[h] = 0)
        /\ \A i \in 1..Len(frames[h]) :
              stop_message(frames[h][i]) =>
                  /\ i = Len(frames[h])
                  /\ pc[h] \in {"closing", "done"}

C6_Witness ==
    \E h \in Handlers :
        /\ pc[h] = "done"
        /\ Len(frames[h]) >= 1
        /\ stop_message(frames[h][Len(frames[h])])
        /\ disc_calls[h] = 1
        /\ session_id[h] \notin DOMAIN sessions

\* C7: the message counter counts every successfully parsed message, the Stop
\* included: a session that received k valid messages, the last one a Stop,
\* reports the message count k when its loop ends.
C7_CountIncludesStop ==
    \A h \in Handlers :
        ( /\ pc[h] \in {"closing", "done"}
          /\ Len(frames[h]) >= 1
          /\ \A i \in 1..Len(frames[h]) : valid_message(frames[h][i])
          /\ stop_message(frames[h][Len(frames[h])]) )
        => reported[h] = Len(frames[h])

\* C8: the media event is logged exactly once, on the first Media message of a
\* session; has_seen_media is set from then on; the message counter has grown
\* by one for each Media message received.
C8_MediaLoggedOnce ==
    \A h \in Handlers :
        /\ media_logged[h] <= 1
        /\ (media_received(h) >= 1 =>
              /\ media_logged[h] = 1
              /\ has_seen_media[h]
              /\ message_count[h] >= media_received(h))
        /\ (media_received(h) = 0 => media_logged[h] = 0 /\ ~has_seen_media[h])

\* C9: a message whose event tag is absent or unrecognized, or whose fields
\* fail validation, leaves the session's counter, flag and metadata and the
\* registry's contents as they were.
C9_InvalidMessageChangesNothing ==
    [][\A h \in Handlers, o \in RecvOutcomes :
          (invalid_message(o) /\ Receive(h, o)) =>
              /\ message_count'[h] = message_count[h]
              /\ has_seen_media'[h] = has_seen_media[h]
              /\ sessions' = sessions]_vars

\* C10: a raw message that is no Protocol Message (a frame that is no JSON
\* included) is dropped and the session continues: the loop awaits the next
\* message, the transport is not closed, the session stays registered.
C10_InvalidMessageSessionContinues ==
    [][\A h \in Handlers, o \in RecvOutcomes :
          ( /\ invalid_message(o) \/ (o.kind = "raise" /\ o.exc = "JSONDecodeError")
            /\ Receive(h, o) ) =>
              /\ pc'[h] = "recv"
              /\ ws_closed'[h] = ws_closed[h]
              /\ (session_id[h] \in DOMAIN sessions =>
                    session_id[h] \in DOMAIN sessions')]_vars


start_message(o) == valid_message(o) /\ o.media.event = "start"
start_received(h) == \E i \in 1..Len(frames[h]) : start_message(frames[h][i])
snapshot_ids == {ca.snapshot[i] : i \in 1..Len(ca.snapshot)}

\* C11: a session's metadata is empty as long as it got no valid Start, holds
\* exactly stream_sid, call_sid and account_sid of the Start once it got one,
\* and never holds any other key.
C11_MetadataFromStart ==
    /\ [](\A h \in Handlers :
            session_id[h] \in DOMAIN sessions =>
                /\ DOMAIN sessions[session_id[h]].metadata \subseteq
                       {"stream_sid", "call_sid", "account_sid"}
                /\ (~start_received(h) =>
                       sessions[session_id[h]].metadata = EmptyDict))
    /\ [][\A h \in Handlers, o \in RecvOutcomes :
            (start_message(o) /\ session_id[h] \in DOMAIN sessions /\ Receive(h, o)) =>
                /\ session_id[h] \in DOMAIN sessions'
                /\ sessions'[session_id[h]].metadata = twilio_metadata]_vars

\* C12: with the bypass off, a connection without the signature header is
\* rejected before a session is created for it; with the bypass on the gate
\* rejects no connection.
C12_GateBeforeRegistration ==
    \A h \in Handlers :
        /\ (environment # "development" /\ signature[h] = "absent") =>
              /\ session_id[h] = NoId
              /\ \A k \in DOMAIN sessions : sessions[k].websocket # h
        /\ (environment = "development" => gate[h].state # "raised")

\* C13: process shutdown calls begin_shutdown() and then close_all(): once
\* the shutdown hook has run the flag is set and close_all, started after the
\* flag was set, has run.
C13_ShutdownHookClosesAll ==
    app_shut_down =>
        /\ is_shutting_down
        /\ ca.pc = "returned"
        /\ ca.after_flag

\* C14: chunk and timestamp sent as a numeric string validate to the integer
\* the string denotes, as the native number does: "5" and 5 both give 5.
RECURSIVE decimal(_)
decimal(n) ==
    IF n < 0 THEN <<"-">> \o decimal(0 - n)
    ELSE IF n < 10 THEN <<CHOOSE c \in DOMAIN DigitValue : DigitValue[c] = n>>
    ELSE decimal(n \div 10) \o decimal(n % 10)

agrees(value, n, result) ==
    /\ (value = IntValue(n) => result = n)
    /\ (value = StrValue(decimal(n)) => result = n)

C14_NumericStringAsNumber ==
    validated.done =>
        \A n \in {v.n : v \in {x \in RawValues : x.type = "int"}} :
            /\ (raw.chunk \in {IntValue(n), StrValue(decimal(n))}
                /\ raw.timestamp \in {IntValue(n), StrValue(decimal(n))})
               => (validated.ok /\ validated.chunk = n /\ validated.timestamp = n)
            /\ validated.ok =>
                  /\ agrees(raw.chunk, n, validated.chunk)
                  /\ agrees(raw.timestamp, n, validated.timestamp)

C14_Witness ==
    /\ validated.done
    /\ validated.ok
    /\ raw.chunk = StrValue(<<"5">>)
    /\ raw.timestamp = IntValue(5)
    /\ validated.chunk = 5
    /\ validated.timestamp = 5

\* C15: the gate allows when the bypass is on; otherwise it rejects with close
\* code 1008 when the signature is missing or its verification fails, and
\* allows only a signature that is present and verifies.
C15_GateDecision ==
    \A h \in Handlers :
        gate[h] # NotCalled =>
            /\ (environment = "development" => gate[h].state = "returned")
            /\ (environment # "development" /\ signature[h] \in {"absent", "invalid"} =>
                  gate[h] = [state |-> "raised", code |-> 1008])
            /\ (environment # "development" /\ signature[h] = "valid" =>
                  gate[h].state = "returned")
            /\ (gate[h].state = "returned" =>
                  environment = "development" \/ signature[h] = "valid")

C15_Witness ==
    \E h \in Handlers :
        /\ environment = "production"
        /\ signature[h] = "absent"
        /\ gate[h] = [state |-> "raised", code |-> 1008]

\* C16: the flag starts false, is never reset once set, is changed by
\* begin_shutdown() only, and a begin_shutdown() after the first changes
\* nothing of the registry.
C16_FlagSetOnce ==
    /\ ~is_shutting_down
    /\ [][/\ (is_shutting_down => is_shutting_down')
          /\ (is_shutting_down' # is_shutting_down => ApiBeginShutdown)
          /\ (ApiBeginShutdown => is_shutting_down')
          /\ (is_shutting_down /\ ApiBeginShutdown => regvars' = regvars)]_vars

C16_Witness ==
    /\ lastCall.op = "begin_shutdown"
    /\ lastCall.found
    /\ lastCall.repeat
    /\ is_shutting_down

\* C17: a close that fails inside close_all() is logged and goes no further:
\* the session is removed all the same, close_all goes on with the sessions
\* left, and the count it returns is the number of closes that succeeded.
C17_CloseAllToleratesFailure ==
    /\ [](/\ ca.pc # "raised"
          /\ ca.closed_count + ca.warnings <= Len(ca.snapshot)
          /\ (ca.pc = "returned" => \A id \in snapshot_ids : id \notin DOMAIN sessions))
    /\ [][\A ok \in BOOLEAN :
            CloseAllResume(ok) =>
                /\ ca.cur \notin DOMAIN sessions'
                /\ ca'.pc \in {"awaiting_close", "returned"}
                /\ ca'.closed_count = ca.closed_count + (IF ok THEN 1 ELSE 0)
                /\ ca'.warnings >= ca.warnings + (IF ok THEN 0 ELSE 1)]_vars

C17_Witness ==
    /\ ca.pc = "returned"
    /\ Len(ca.snapshot) = 2
    /\ ca.warnings = 1
    /\ ca.closed_count = 1
    /\ sessions = EmptyDict

\* C18: close_all() visits the ids of the one snapshot it took: a session
\* registered later is neither closed nor removed by it, and a snapshotted
\* session its handler already removed is skipped, without error or count.
C18_CloseAllVisitsSnapshot ==
    /\ [](/\ ca.pc # "raised"
          /\ \A h \in Handlers : close_calls[h] >= 1 => session_id[h] \in snapshot_ids
          /\ (ca.pc = "returned" =>
                ca.closed_count + ca.warnings =
                    Cardinality({h \in Handlers : close_calls[h] >= 1})))
    /\ [][(CloseAllOnce \/ \E ok \in BOOLEAN : CloseAllResume(ok)) =>
            \A k \in DOMAIN sessions :
                k \notin {ca'.snapshot[i] : i \in 1..Len(ca'.snapshot)} =>
                    /\ k \in DOMAIN sessions'
                    /\ sessions'[k] = sessions[k]
                    /\ close_calls'[sessions[k].websocket] =
                           close_calls[sessions[k].websocket]]_vars

C18_Witness ==
    /\ ca.pc = "returned"
    /\ Len(ca.snapshot) = 2
    /\ ca.closed_count + ca.warnings = 1
    /\ \E h \in Handlers :
          /\ session_id[h] \in snapshot_ids
          /\ close_calls[h] = 0
          /\ pc[h] = "done"

\* C19: the registry operations are atomic with respect to one another: while
\* close_all() is between its start and its end and takes no step, no other
\* operation changes the registry.
C19_CloseAllAtomic ==
    [][(ca.pc = "awaiting_close" /\ ca' = ca) => regvars' = regvars]_vars

\* C20: a transport fault in a handler is caught in that handler and ends in
\* the cleanup of its own session: every other session, with its metadata,
\* and the shutdown flag stay as they were.
C20_FaultStaysInHandler ==
    [][\A h \in Handlers, o \in RecvOutcomes :
          (o.kind = "raise" /\ o.exc = "RuntimeError" /\ Receive(h, o)) =>
              /\ pc'[h] = "done"
              /\ exit_by'[h] = "Exception"
              /\ session_id[h] \notin DOMAIN sessions'
              /\ \A k \in (DOMAIN sessions) \ {session_id[h]} :
                    k \in DOMAIN sessions' /\ sessions'[k] = sessions[k]
              /\ (DOMAIN sessions') \subseteq (DOMAIN sessions)
              /\ is_shutting_down' = is_shutting_down
              /\ \A g \in Handlers \ {h} : pc'[g] = pc[g]]_vars

C20_Witness ==
    \E h \in Handlers :
        /\ pc[h] = "done"
        /\ exit_by[h] = "Exception"
        /\ frames[h][Len(frames[h])].exc = "RuntimeError"
        /\ session_id[h] \notin DOMAIN sessions
        /\ \E g \in Handlers \ {h} : session_id[g] \in DOMAIN sessions


\* C21: every session a media-stream handler registered is removed in the
\* end: on a transport that eventually delivers a Stop, a disconnect or a
\* fault, the handler's receive loop exits and its session id is out of the
\* registry from then on.
C21_SessionEventuallyRemoved ==
    \A h \in Handlers :
        <>[](/\ pc[h] \in {"idle", "accepted", "aborted", "done"}
             /\ session_id[h] \notin DOMAIN sessions)

C21_Witness ==
    \E h \in Handlers :
        /\ pc[h] = "done"
        /\ session_id[h] # NoId
        /\ session_id[h] \notin DOMAIN sessions
        /\ frames[h][Len(frames[h])] \in EndOutcomes
        /\ ca.pc = "idle"


in_handler(h) == pc[h] \in {"recv", "closing", "echo_recv", "echo_send"}
removed_ids == (DOMAIN sessions) \ (DOMAIN sessions')

\* C23: every session id in the registry is the id of a handler that has
\* called connect and has not ended; no session outlives its handler; a
\* handler's cleanup removes no session but its own, and close_all() removes
\* no session but the ones of its snapshot.
C23_SessionOwnedByLiveHandler ==
    /\ [](\A k \in DOMAIN sessions :
            \E h \in Handlers :
                /\ session_id[h] = k
                /\ sessions[k].websocket = h
                /\ in_handler(h)
                /\ \A g \in Handlers \ {h} : session_id[g] # k)
    /\ [](\A h \in Handlers :
            pc[h] \in {"done", "aborted"} => session_id[h] \notin DOMAIN sessions)
    /\ [][/\ \A h \in Handlers :
               pc'[h] # pc[h] => removed_ids \subseteq {session_id[h]}
          /\ ca' # ca =>
               removed_ids \subseteq {ca'.snapshot[i] : i \in 1..Len(ca'.snapshot)}]_vars

C23_Witness ==
    \E h \in Handlers, g \in Handlers :
        /\ pc[h] = "done"
        /\ exit_by[h] # "none"
        /\ session_id[h] # NoId
        /\ session_id[h] \notin DOMAIN sessions
        /\ pc[g] = "echo_send"
        /\ session_id[g] \in DOMAIN sessions
        /\ ca.pc = "returned"
        /\ Len(ca.snapshot) = 1

====
